---- MODULE Spec2Model ----
(***************************************************************************)
(* Model of src/ec/suite_b/public_key.rs: parse_uncompressed_point, the    *)
(* decoder and validator of an uncompressed elliptic-curve public key.     *)
(* A call is a straight-line sequence of steps, one action per step.  Spec  *)
(* runs one call; SharedSpec runs two calls on the same PublicKeyOps       *)
(* bundle and the same input, their steps interleaved.                     *)
(***************************************************************************)
EXTENDS Integers, Sequences, FiniteSets, TLC

\* ---------------------------------------------------------------- bounds
\* Bytes of the input are drawn from 0..MaxByte and the tag value.
MaxByte == 2
\* Inputs are at most MaxExtra bytes longer than a well-formed encoding.
MaxExtra == 1

\* ------------------------------------------------------ program constants
\* The tag of the uncompressed encoding ("encoding != 4").
UNCOMPRESSED == 4
\* One byte holds eight bits: a big-endian digit weighs 256.
ByteRadix == 256
\* The bytes the inputs are made of.
ByteVals == (0 .. MaxByte) \cup {UNCOMPRESSED}

\* Err(()): the error carries the unit value.
Unit == 0
\* An Elem that has not been computed yet.
NoElem == 0 - 1

\* PublicKeyOps bundles: the field modulus q, the curve constants a and b
\* (a = -3 mod q, as for the Suite B curves) and the width of one encoded
\* coordinate in bytes.
PublicKeyOpsSet ==
    { [q |-> 5,   a |-> 2,   b |-> 1, elem_bytes |-> 1],
      [q |-> 257, a |-> 254, b |-> 3, elem_bytes |-> 2] }

\* ------------------------------------------------- field arithmetic (ops)
elem_sqr(o, e) == (e * e) % o.q

elem_mul(o, e, f) == (e * f) % o.q

\* elem_add(&mut r, e): the new value of r.
elem_add(o, r, e) == (r + e) % o.q

elems_are_equal(o, e, f) == e = f

\* The value of the big-endian digits s.
RECURSIVE BigEndian(_)
BigEndian(s) ==
    IF Len(s) = 0 THEN 0
    ELSE BigEndian(SubSeq(s, 1, Len(s) - 1)) * ByteRadix + s[Len(s)]

\* elem_parse(input): reads elem_bytes bytes at the cursor i of inp and
\* accepts them when their big-endian value is in [0, q).
elem_parse(o, inp, i) ==
    IF i + o.elem_bytes > Len(inp)
    THEN [ok |-> FALSE, elem |-> NoElem, i |-> i]
    ELSE LET v == BigEndian(SubSeq(inp, i + 1, i + o.elem_bytes))
         IN  IF v >= o.q
             THEN [ok |-> FALSE, elem |-> NoElem, i |-> i + o.elem_bytes]
             ELSE [ok |-> TRUE, elem |-> v, i |-> i + o.elem_bytes]

\* ------------------------------------------------------ untrusted::Reader
\* read_byte(): the byte at the cursor, or failure at the end of the input.
read_byte(inp, i) ==
    IF i >= Len(inp)
    THEN [ok |-> FALSE, byte |-> 0, i |-> i]
    ELSE [ok |-> TRUE, byte |-> inp[i + 1], i |-> i + 1]

\* at_end(): read_all accepts the closure's value only when this holds.
at_end(inp, i) == i = Len(inp)

\* ------------------------------------------------------------------ state
VARIABLES
    ops,       \* the PublicKeyOps bundle shared by the calls
    input,     \* the input bytes shared by the calls
    pc,        \* pc[c]: the step call c is at
    i,         \* i[c]: the cursor of call c's reader
    x, y,      \* the parsed coordinates of call c
    lhs, rhs,  \* the two sides of the curve equation of call c
    result,    \* result[c]: what call c returned
    visited,   \* visited[c]: the steps call c has taken, in order
    elemOps,   \* elemOps[c]: the field operations call c has performed
    cause      \* cause[c]: the check that made call c fail

vars == <<ops, input, pc, i, x, y, lhs, rhs, result, visited, elemOps, cause>>

\* The calls in flight.
Calls == DOMAIN pc

NoResult == [tag |-> "None", x |-> NoElem, y |-> NoElem, e |-> Unit]
Ok(px, py) == [tag |-> "Ok", x |-> px, y |-> py, e |-> Unit]
Err(u) == [tag |-> "Err", x |-> NoElem, y |-> NoElem, e |-> u]

\* The inputs tried for bundle o: every byte string up to MaxExtra bytes
\* longer than 1 + 2 * elem_bytes.
Inputs(o) ==
    UNION { [1 .. n -> ByteVals] : n \in 0 .. (1 + 2 * o.elem_bytes + MaxExtra) }

\* The state at the entry of the calls cs, for every bundle and input.
InitCalls(cs) ==
    /\ ops \in PublicKeyOpsSet
    /\ input \in Inputs(ops)
    /\ pc = [c \in cs |-> "ReadTag"]
    /\ i = [c \in cs |-> 0]
    /\ x = [c \in cs |-> NoElem]
    /\ y = [c \in cs |-> NoElem]
    /\ lhs = [c \in cs |-> NoElem]
    /\ rhs = [c \in cs |-> NoElem]
    /\ result = [c \in cs |-> NoResult]
    /\ visited = [c \in cs |-> <<>>]
    /\ elemOps = [c \in cs |-> <<>>]
    /\ cause = [c \in cs |-> "none"]

\* One call.
Init == InitCalls({1})

\* Two calls given the same bundle and the same input.
InitShared == InitCalls({1, 2})

\* Fail with an error value that tells the equation check from the others.
Fail_withCause(c, why) ==
    /\ pc' = [pc EXCEPT ![c] = "Error"]
    /\ result' = [result EXCEPT ![c] = Err(IF why = "equation" THEN Unit + 1 ELSE Unit)]
    /\ cause' = [cause EXCEPT ![c] = why]

\* return Err(()) from step `why`.
Fail(c, why) ==
    /\ pc' = [pc EXCEPT ![c] = "Error"]
    /\ result' = [result EXCEPT ![c] = Err(Unit)]
    /\ cause' = [cause EXCEPT ![c] = why]

\* ReadTag without the comparison of the encoding byte with 4.
ReadTag_anyTag(c) ==
    /\ pc[c] = "ReadTag"
    /\ visited' = [visited EXCEPT ![c] = Append(@, "ReadTag")]
    /\ LET r == read_byte(input, i[c])
       IN  /\ i' = [i EXCEPT ![c] = r.i]
           /\ IF ~r.ok THEN Fail(c, "no_tag")
              ELSE /\ pc' = [pc EXCEPT ![c] = "ParseX"]
                   /\ UNCHANGED <<result, cause>>
    /\ UNCHANGED <<ops, input, x, y, lhs, rhs, elemOps>>

\* let encoding = try!(input.read_byte()); if encoding != 4 { return Err(()) }
ReadTag(c) ==
    /\ pc[c] = "ReadTag"
    /\ visited' = [visited EXCEPT ![c] = Append(@, "ReadTag")]
    /\ LET r == read_byte(input, i[c])
       IN  /\ i' = [i EXCEPT ![c] = r.i]
           /\ IF ~r.ok THEN Fail(c, "no_tag")
              ELSE IF r.byte # UNCOMPRESSED THEN Fail(c, "bad_tag")
              ELSE /\ pc' = [pc EXCEPT ![c] = "ParseX"]
                   /\ UNCHANGED <<result, cause>>
    /\ UNCHANGED <<ops, input, x, y, lhs, rhs, elemOps>>

\* ParseX that takes the reduced value of an x slot that is out of range
\* instead of propagating the parser's error.
ParseX_reduce(c) ==
    /\ pc[c] = "ParseX"
    /\ visited' = [visited EXCEPT ![c] = Append(@, "ParseX")]
    /\ LET r == elem_parse(ops, input, i[c])
       IN  /\ i' = [i EXCEPT ![c] = r.i]
           /\ IF ~r.ok /\ r.i = i[c]
              THEN /\ Fail(c, "parse_x")
                   /\ UNCHANGED x
              ELSE /\ x' = [x EXCEPT ![c] =
                              IF r.ok THEN r.elem
                              ELSE BigEndian(SubSeq(input, i[c] + 1, r.i)) % ops.q]
                   /\ pc' = [pc EXCEPT ![c] = "ParseY"]
                   /\ UNCHANGED <<result, cause>>
    /\ UNCHANGED <<ops, input, y, lhs, rhs, elemOps>>

\* let x = try!(ops.elem_parse(input));
ParseX(c) ==
    /\ pc[c] = "ParseX"
    /\ visited' = [visited EXCEPT ![c] = Append(@, "ParseX")]
    /\ LET r == elem_parse(ops, input, i[c])
       IN  /\ i' = [i EXCEPT ![c] = r.i]
           /\ IF ~r.ok
              THEN /\ Fail(c, "parse_x")
                   /\ UNCHANGED x
              ELSE /\ x' = [x EXCEPT ![c] = r.elem]
                   /\ pc' = [pc EXCEPT ![c] = "ParseY"]
                   /\ UNCHANGED <<result, cause>>
    /\ UNCHANGED <<ops, input, y, lhs, rhs, elemOps>>

\* ParseY that goes on to the equation without the exhaustion check.
ParseY_skipsExhaustion(c) ==
    /\ pc[c] = "ParseY"
    /\ visited' = [visited EXCEPT ![c] = Append(@, "ParseY")]
    /\ LET r == elem_parse(ops, input, i[c])
       IN  /\ i' = [i EXCEPT ![c] = r.i]
           /\ IF ~r.ok
              THEN /\ Fail(c, "parse_y")
                   /\ UNCHANGED y
              ELSE /\ y' = [y EXCEPT ![c] = r.elem]
                   /\ pc' = [pc EXCEPT ![c] = "SqrY"]
                   /\ UNCHANGED <<result, cause>>
    /\ UNCHANGED <<ops, input, x, lhs, rhs, elemOps>>

\* let y = try!(ops.elem_parse(input));
ParseY(c) ==
    /\ pc[c] = "ParseY"
    /\ visited' = [visited EXCEPT ![c] = Append(@, "ParseY")]
    /\ LET r == elem_parse(ops, input, i[c])
       IN  /\ i' = [i EXCEPT ![c] = r.i]
           /\ IF ~r.ok
              THEN /\ Fail(c, "parse_y")
                   /\ UNCHANGED y
              ELSE /\ y' = [y EXCEPT ![c] = r.elem]
                   /\ pc' = [pc EXCEPT ![c] = "CheckExhausted"]
                   /\ UNCHANGED <<result, cause>>
    /\ UNCHANGED <<ops, input, x, lhs, rhs, elemOps>>

\* CheckExhausted that accepts the closure's value with bytes left over.
CheckExhausted_ignoreRest(c) ==
    /\ pc[c] = "CheckExhausted"
    /\ visited' = [visited EXCEPT ![c] = Append(@, "CheckExhausted")]
    /\ pc' = [pc EXCEPT ![c] = "SqrY"]
    /\ UNCHANGED <<ops, input, i, x, y, lhs, rhs, result, elemOps, cause>>

\* input.read_all((), ...): the closure returned Ok((x, y)); the value is
\* kept only when the reader is at the end of the input.
CheckExhausted(c) ==
    /\ pc[c] = "CheckExhausted"
    /\ visited' = [visited EXCEPT ![c] = Append(@, "CheckExhausted")]
    /\ IF at_end(input, i[c])
       THEN /\ pc' = [pc EXCEPT ![c] = "SqrY"]
            /\ UNCHANGED <<result, cause>>
       ELSE Fail(c, "trailing")
    /\ UNCHANGED <<ops, input, i, x, y, lhs, rhs, elemOps>>

\* let lhs = ops.common.elem_sqr(&y);
SqrY(c) ==
    /\ pc[c] = "SqrY"
    /\ visited' = [visited EXCEPT ![c] = Append(@, "ValidateEquation")]
    /\ lhs' = [lhs EXCEPT ![c] = elem_sqr(ops, y[c])]
    /\ elemOps' = [elemOps EXCEPT ![c] = Append(@, "sqr_y")]
    /\ pc' = [pc EXCEPT ![c] = "SqrX"]
    /\ UNCHANGED <<ops, input, i, x, y, rhs, result, cause>>

\* let mut rhs = ops.common.elem_sqr(&x);
SqrX(c) ==
    /\ pc[c] = "SqrX"
    /\ rhs' = [rhs EXCEPT ![c] = elem_sqr(ops, x[c])]
    /\ elemOps' = [elemOps EXCEPT ![c] = Append(@, "sqr_x")]
    /\ pc' = [pc EXCEPT ![c] = "AddA"]
    /\ UNCHANGED <<ops, input, i, x, y, lhs, result, visited, cause>>

\* AddA with the operands exchanged: the sum is stored in the bundle's a.
AddA_intoBundle(c) ==
    /\ pc[c] = "AddA"
    /\ ops' = [ops EXCEPT !.a = elem_add(ops, @, rhs[c])]
    /\ elemOps' = [elemOps EXCEPT ![c] = Append(@, "add_a")]
    /\ pc' = [pc EXCEPT ![c] = "MulX"]
    /\ UNCHANGED <<input, i, x, y, lhs, rhs, result, visited, cause>>

\* ops.elem_add(&mut rhs, &ops.a);
AddA(c) ==
    /\ pc[c] = "AddA"
    /\ rhs' = [rhs EXCEPT ![c] = elem_add(ops, @, ops.a)]
    /\ elemOps' = [elemOps EXCEPT ![c] = Append(@, "add_a")]
    /\ pc' = [pc EXCEPT ![c] = "MulX"]
    /\ UNCHANGED <<ops, input, i, x, y, lhs, result, visited, cause>>

\* MulX that multiplies rhs by itself instead of by x.
MulX_byRhs(c) ==
    /\ pc[c] = "MulX"
    /\ rhs' = [rhs EXCEPT ![c] = elem_mul(ops, @, @)]
    /\ elemOps' = [elemOps EXCEPT ![c] = Append(@, "mul_x")]
    /\ pc' = [pc EXCEPT ![c] = "AddB"]
    /\ UNCHANGED <<ops, input, i, x, y, lhs, result, visited, cause>>

\* MulX that skips the multiplication when x is zero.
MulX_skipZero(c) ==
    /\ pc[c] = "MulX"
    /\ IF x[c] = 0
       THEN /\ rhs' = [rhs EXCEPT ![c] = 0]
            /\ UNCHANGED elemOps
       ELSE /\ rhs' = [rhs EXCEPT ![c] = elem_mul(ops, @, x[c])]
            /\ elemOps' = [elemOps EXCEPT ![c] = Append(@, "mul_x")]
    /\ pc' = [pc EXCEPT ![c] = "AddB"]
    /\ UNCHANGED <<ops, input, i, x, y, lhs, result, visited, cause>>

\* let mut rhs = ops.common.elem_mul(&rhs, &x);
MulX(c) ==
    /\ pc[c] = "MulX"
    /\ rhs' = [rhs EXCEPT ![c] = elem_mul(ops, @, x[c])]
    /\ elemOps' = [elemOps EXCEPT ![c] = Append(@, "mul_x")]
    /\ pc' = [pc EXCEPT ![c] = "AddB"]
    /\ UNCHANGED <<ops, input, i, x, y, lhs, result, visited, cause>>

\* ops.elem_add(&mut rhs, &ops.b);
AddB(c) ==
    /\ pc[c] = "AddB"
    /\ rhs' = [rhs EXCEPT ![c] = elem_add(ops, @, ops.b)]
    /\ elemOps' = [elemOps EXCEPT ![c] = Append(@, "add_b")]
    /\ pc' = [pc EXCEPT ![c] = "Equal"]
    /\ UNCHANGED <<ops, input, i, x, y, lhs, result, visited, cause>>

\* Equal with the negation of the comparison dropped.
Equal_inverted(c) ==
    /\ pc[c] = "Equal"
    /\ elemOps' = [elemOps EXCEPT ![c] = Append(@, "equal")]
    /\ IF elems_are_equal(ops, lhs[c], rhs[c])
       THEN Fail(c, "equation")
       ELSE /\ pc' = [pc EXCEPT ![c] = "Ok"]
            /\ result' = [result EXCEPT ![c] = Ok(x[c], y[c])]
            /\ UNCHANGED cause
    /\ UNCHANGED <<ops, input, i, x, y, lhs, rhs, visited>>

\* Equal that returns the coordinates in the other order.
Equal_swapped(c) ==
    /\ pc[c] = "Equal"
    /\ elemOps' = [elemOps EXCEPT ![c] = Append(@, "equal")]
    /\ IF ~elems_are_equal(ops, lhs[c], rhs[c])
       THEN Fail(c, "equation")
       ELSE /\ pc' = [pc EXCEPT ![c] = "Ok"]
            /\ result' = [result EXCEPT ![c] = Ok(y[c], x[c])]
            /\ UNCHANGED cause
    /\ UNCHANGED <<ops, input, i, x, y, lhs, rhs, visited>>

\* if !ops.elems_are_equal(&lhs, &rhs) { return Err(()); }  Ok((x, y))
Equal(c) ==
    /\ pc[c] = "Equal"
    /\ elemOps' = [elemOps EXCEPT ![c] = Append(@, "equal")]
    /\ IF ~elems_are_equal(ops, lhs[c], rhs[c])
       THEN Fail(c, "equation")
       ELSE /\ pc' = [pc EXCEPT ![c] = "Ok"]
            /\ result' = [result EXCEPT ![c] = Ok(x[c], y[c])]
            /\ UNCHANGED cause
    /\ UNCHANGED <<ops, input, i, x, y, lhs, rhs, visited>>

\* One step of call c.
Step(c) ==
    \/ ReadTag(c)
    \/ ParseX(c)
    \/ ParseY(c)
    \/ CheckExhausted(c)
    \/ SqrY(c)
    \/ SqrX(c)
    \/ AddA(c)
    \/ MulX(c)
    \/ AddB(c)
    \/ Equal(c)

Next == \E c \in Calls : Step(c)

Spec == Init /\ [][Next]_vars

\* Two calls on the same bundle and input, interleaved in any way.
SharedSpec == InitShared /\ [][Next]_vars

\* A call is a synchronous computation without suspension points: a call
\* that can take its next step takes it.
FairSpec == Spec /\ WF_vars(Next)

\* ------------------------------------------------- vocabulary of the claims
\* Call c has returned.
Done(c) == pc[c] \in {"Ok", "Error"}

\* The length of a well-formed encoding: 1 + 2 * field_width.
ExactLen(o) == 1 + 2 * o.elem_bytes

\* The curve equation y^2 = x^3 + a*x + b over the field of o.
OnCurve(o, px, py) ==
    (py * py) % o.q = (px * px * px + o.a * px + o.b) % o.q

\* The n-byte big-endian encoding of v.
RECURSIVE ToBytes(_, _)
ToBytes(v, n) ==
    IF n = 0 THEN <<>>
    ELSE Append(ToBytes(v \div ByteRadix, n - 1), v % ByteRadix)

\* The standard uncompressed encoding of the point (px, py).
EncodePoint(o, px, py) ==
    <<UNCOMPRESSED>> \o ToBytes(px, o.elem_bytes) \o ToBytes(py, o.elem_bytes)

\* Per bundle, the points of the curve with their encodings.
EncodedPoints ==
    [o \in PublicKeyOpsSet |->
        { [x |-> p[1], y |-> p[2], enc |-> EncodePoint(o, p[1], p[2])] :
            p \in { q \in (0 .. o.q - 1) \X (0 .. o.q - 1) : OnCurve(o, q[1], q[2]) } }]

\* The values of the two coordinate slots of the input, read as the wire
\* format defines them (defined when the input is long enough).
SlotX == BigEndian(SubSeq(input, 2, 1 + ops.elem_bytes))
SlotY == BigEndian(SubSeq(input, 2 + ops.elem_bytes, 1 + 2 * ops.elem_bytes))

\* The steps of a decode, in the order the code takes them.
Phases == <<"ReadTag", "ParseX", "ParseY", "CheckExhausted", "ValidateEquation">>

\* The field operations of the equation check, in the order of the code.
EquationOps == <<"sqr_y", "sqr_x", "add_a", "mul_x", "add_b", "equal">>

\* s is a prefix of t.
IsPrefix(s, t) == Len(s) <= Len(t) /\ s = SubSeq(t, 1, Len(s))

\* The input has the tag, the exact length and two coordinate slots that
\* elem_parse accepts.
WellFormed ==
    /\ Len(input) = ExactLen(ops)
    /\ input[1] = UNCOMPRESSED
    /\ SlotX < ops.q
    /\ SlotY < ops.q

\* ------------------------------------------------------------------ claims

\* C1 (soundness): a call that returns Ok((x, y)) returns a pair with
\* y^2 = x^3 + a*x + b in the field; equivalently a well-formed input whose
\* coordinates do not satisfy the equation is answered with the error.
C1_Soundness ==
    \A c \in Calls :
        /\ result[c].tag = "Ok" => OnCurve(ops, result[c].x, result[c].y)
        /\ (Done(c) /\ WellFormed /\ ~OnCurve(ops, SlotX, SlotY))
              => result[c] = Err(Unit)

\* C1 witness: a call has returned Ok for a point of the curve.
C1_Witness ==
    \E c \in Calls : pc[c] = "Ok" /\ result[c].tag = "Ok" /\ result[c].y # 0

\* C2 (round trip): the encoding 0x04 || enc(x) || enc(y) of a point (x, y)
\* of the curve decodes to Ok((x, y)), the coordinates in that order and
\* unaltered.
C2_RoundTrip ==
    \A c \in Calls :
        Done(c) =>
            \A P \in EncodedPoints[ops] :
                input = P.enc => result[c] = Ok(P.x, P.y)

\* C2 witness: the encoding of a point with x # y has been decoded.
C2_Witness ==
    \E c \in Calls :
        /\ Done(c)
        /\ \E P \in EncodedPoints[ops] : input = P.enc /\ P.x # P.y

\* C3 (length): an input whose length is not 1 + 2 * field_width gets the
\* error, too short or too long, whatever its bytes.
C3_Length ==
    \A c \in Calls :
        (Done(c) /\ Len(input) # ExactLen(ops)) => result[c] = Err(Unit)

\* C3 witness: an input that is the encoding of a point of the curve
\* followed by one more byte has been rejected.
C3_Witness ==
    \E c \in Calls :
        /\ Done(c)
        /\ Len(input) = ExactLen(ops) + 1
        /\ \E P \in EncodedPoints[ops] : SubSeq(input, 1, ExactLen(ops)) = P.enc

\* C4 (tag): an empty input, or one whose first byte is not 0x04, gets the
\* error whatever follows.
C4_Tag ==
    \A c \in Calls :
        (Done(c) /\ (Len(input) = 0 \/ input[1] # UNCOMPRESSED))
            => result[c] = Err(Unit)

\* C4 witness: an input of the exact length whose first byte is not the tag
\* and whose other bytes are those of a point of the curve has been rejected.
C4_Witness ==
    \E c \in Calls :
        /\ Done(c)
        /\ Len(input) = ExactLen(ops)
        /\ input[1] # UNCOMPRESSED
        /\ \E P \in EncodedPoints[ops] : Tail(input) = Tail(P.enc)

\* C5 (one error): whatever check rejected the input, the caller gets the
\* same content-free error value.
C5_OneError ==
    \A c \in Calls :
        /\ pc[c] = "Error" => result[c] = Err(Unit)
        /\ result[c].tag = "Err" => result[c] = Err(Unit)
        /\ \A d \in Calls :
              (result[c].tag = "Err" /\ result[d].tag = "Err")
                  => result[c] = result[d]

\* C5 witness: an input has been rejected by the curve equation check.
C5_Witness ==
    \E c \in Calls : pc[c] = "Error" /\ cause[c] = "equation"

C7_ParserRejection ==
    \A c \in Calls :
        /\ (Done(c) /\ Len(input) >= 1 /\ ~elem_parse(ops, input, 1).ok)
              => result[c] = Err(Unit)
        /\ (Done(c) /\ Len(input) >= 1
              /\ ~elem_parse(ops, input, 1 + ops.elem_bytes).ok)
              => result[c] = Err(Unit)
        /\ result[c].tag = "Ok" => (result[c].x = SlotX /\ result[c].y = SlotY)
        /\ (Done(c) /\ WellFormed /\ OnCurve(ops, SlotX, SlotY))
              => result[c].tag = "Ok"

\* C7 witness: an input of the exact length whose x slot is not below the
\* modulus, and whose coordinates satisfy the equation once reduced, has
\* been rejected.
C7_Witness ==
    \E c \in Calls :
        /\ pc[c] = "Error"
        /\ Len(input) = ExactLen(ops)
        /\ input[1] = UNCOMPRESSED
        /\ SlotX >= ops.q
        /\ SlotY < ops.q
        /\ OnCurve(ops, SlotX % ops.q, SlotY)

\* C8 (right-hand side): the value the code builds by sqr(x), add a, mul by
\* x, add b is x^3 + a*x + b in the field, the left-hand side is y^2, and
\* the comparison accepts exactly the points of the curve.
C8_RightHandSide ==
    \A c \in Calls :
        Len(elemOps[c]) >= 5 =>
            /\ rhs[c] = (x[c] * x[c] * x[c] + ops.a * x[c] + ops.b) % ops.q
            /\ lhs[c] = (y[c] * y[c]) % ops.q
            /\ Done(c) => (pc[c] = "Ok" <=> OnCurve(ops, x[c], y[c]))

\* C8 witness: the right-hand side has been built for an x whose cube
\* exceeds the modulus.
C8_Witness ==
    \E c \in Calls :
        pc[c] = "Equal" /\ x[c] * x[c] * x[c] >= ops.q /\ rhs[c] # ops.b

\* The conditions of the checks call c has passed so far.
ChecksPassed(c) ==
    /\ Len(visited[c]) >= 2 => (Len(input) >= 1 /\ input[1] = UNCOMPRESSED)
    /\ Len(visited[c]) >= 3 => elem_parse(ops, input, 1).ok
    /\ Len(visited[c]) >= 4 => elem_parse(ops, input, 1 + ops.elem_bytes).ok
    /\ Len(visited[c]) >= 5 => at_end(input, i[c])

\* C9 (order and termination): a call goes through ReadTag, ParseX, ParseY,
\* CheckExhausted, ValidateEquation in that order without revisiting a step,
\* returns Ok only after the five steps, checks exhaustion once and after
\* both coordinates, starts the arithmetic only after that check passed, and
\* always ends in Ok or Error.
C9_LinearOrder ==
    /\ [](\A c \in Calls :
            /\ IsPrefix(visited[c], Phases)
            /\ ChecksPassed(c)
            /\ pc[c] = "Ok" => (visited[c] = Phases /\ elemOps[c] = EquationOps
                                  /\ elems_are_equal(ops, lhs[c], rhs[c]))
            /\ elemOps[c] # <<>> =>
                  (Len(visited[c]) = 5 /\ at_end(input, i[c]))
            /\ (Done(c) /\ visited[c] # Phases) => pc[c] = "Error")
    /\ <>[](\A c \in Calls : Done(c))

\* C9 witness: a call has returned Ok after the five steps.
C9_Witness ==
    \E c \in Calls : pc[c] = "Ok" /\ visited[c] = Phases

\* C10 (value-independent control flow): a call that passed the exhaustion
\* check performs square y, square x, add a, multiply by x, add b and one
\* equality test, on the curve or not; the position in that sequence depends
\* on the step alone, and only the equality test decides.
C10_SameOps ==
    \A c \in Calls :
        /\ IsPrefix(elemOps[c], EquationOps)
        /\ (Done(c) /\ Len(visited[c]) = 5) => elemOps[c] = EquationOps
        /\ (pc[c] = "Error" /\ Len(visited[c]) = 5) => cause[c] = "equation"
        /\ pc[c] = "SqrX" => Len(elemOps[c]) = 1
        /\ pc[c] = "AddA" => Len(elemOps[c]) = 2
        /\ pc[c] = "MulX" => Len(elemOps[c]) = 3
        /\ pc[c] = "AddB" => Len(elemOps[c]) = 4
        /\ pc[c] = "Equal" => Len(elemOps[c]) = 5

\* C10 witness: a point off the curve with x = 0 has been rejected after the
\* whole sequence of field operations.
C10_Witness ==
    \E c \in Calls :
        /\ pc[c] = "Error"
        /\ x[c] = 0
        /\ elemOps[c] = EquationOps

====
